---- MODULE Spec2Model ----
(***************************************************************************)
(* Model of mergedBlocksWriter (merged_blocks_writer.go): the accumulator  *)
(* that groups a stream of numbered blocks into 100-block bundles and      *)
(* hands each bundle to a store through a pipe fed by a serializer         *)
(* goroutine.                                                              *)
(*                                                                         *)
(* ProcessBlock runs on the caller's thread.  It is atomic up to the call  *)
(* of store.WriteObject inside writeBundle; from there the caller's thread *)
(* (inside the store) and the serializer goroutine interleave, so the      *)
(* model splits ProcessBlock at that call: ProcessBlock / TweakFails start *)
(* a call, the Store* actions are the store reading the pipe and           *)
(* returning, and StoreReturn also runs the rest of writeBundle and the    *)
(* rest of ProcessBlock.  The Unit* actions are the goroutine.             *)
(*                                                                         *)
(* The tweakBlock hook (lines 26-32) is an injected function that either   *)
(* fails or yields the block the rest of ProcessBlock works on.  The block *)
(* handed to ProcessBlock below is that block; TweakFails is a call whose  *)
(* hook fails.  A run without TweakFails is a run of an accumulator with   *)
(* no hook as well as of one whose hook always succeeds.                   *)
(*                                                                         *)
(* The anomaly scans (lines 119-145) are operators over a buffer.          *)
(* ProcessBlock runs them where lines 58-59 do; SpecScan runs them on      *)
(* their own over every small buffer.                                      *)
(***************************************************************************)
EXTENDS Integers, Sequences, FiniteSets, TLC

VARIABLES
    lowBlockNum,      \* w.lowBlockNum
    blocks,           \* w.blocks
    stopBlockNum,     \* w.stopBlockNum (0: no stop limit)
    checkBundleSize,  \* w.checkBundleSize
    firstStreamable,  \* bstream.GetProtocolFirstStreamableBlock
    pc,               \* caller's thread: "idle", or inside WriteObject of the
                      \* "overflow" (line 44) or "completion" (line 62) flush
    blk,              \* the block of the current / last ProcessBlock call
    ret,              \* what the last finished ProcessBlock call returned
    units,            \* live serializer goroutines, each with its pipe
    recv,             \* records the store has read in the current / last WriteObject
    writes,           \* every store.WriteObject call so far: its name, the call
                      \* of ProcessBlock it was made in, the size of its bundle
    bundle,           \* w.blocks at the last store.WriteObject call
    lastWB,           \* bookkeeping of the last writeBundle invocation
    fed,              \* shape of the input so far
    used,             \* irregularities injected so far
    logged            \* the scan that ran last (lines 58-59, 119-145) and the
                      \* Error entries it logged

vars == <<lowBlockNum, blocks, stopBlockNum, checkBundleSize,
          firstStreamable, pc, blk, ret, units, recv, writes, bundle, lastWB, fed, used,
          logged>>

config == <<stopBlockNum, checkBundleSize, firstStreamable>>

----------------------------------------------------------------------------
(* Program constants *)

BundleSize == 100        \* the literal 100 (lines 35, 57, 109, 116)
LastOffset == 99         \* the literal 99 (lines 34, 42, 55)
FilenameWidth == 10      \* "%010d" (line 72)

(* Bounds of the model *)

MaxBlockNum == 301       \* largest block number fed
MaxIrregular == 1        \* irregularities in one run: gaps and repeated numbers
                         \* in the input, failures of the injected collaborators
MaxScanLen == 3          \* longest buffer the scans are run over on their own

(* Inputs are drawn from these sets. *)
StartNums == {0, 100, 130, 150, 200}
JumpFrom == {49, 99}                         \* offsets in the bundle a gap starts after
JumpTo == {100, 150, 200, 243, 250, 299, 300}   \* first block after a gap
DupAt == {50, 99}                            \* offsets of a repeated number
StopLimits == {0, 300}
FirstStreamables == {2, 130}
StoreFailAfter == {0, 1}   \* records read before the store gives up
WriteFailAt == {1, 2}      \* index of the block the serializer fails on
TweakFailAt == {0, 50, 99} \* offsets in the bundle of a block the hook fails on

----------------------------------------------------------------------------
(* Blocks.  Id stands for the block's id string: 2n is the id of the       *)
(* canonical block numbered n, 2n+1 that of a competing block with the     *)
(* same number.                                                            *)

Block(n, v) == [Number |-> n, Id |-> 2 * n + v]
NoBlock == [Number |-> -1, Id |-> -1]

(* lowBoundary without the rounding. *)
lowBoundary_NoRounding(i) == i

(* lowBoundary, line 115 *)
lowBoundary(i) == i - (i % BundleSize)

(* filename, line 71: fmt.Sprintf("%010d", num), as the sequence of its    *)
(* decimal digits, most significant first, left-padded with zeros to ten.  *)
RECURSIVE Digits(_)
Digits(n) == IF n < 10 THEN <<n>> ELSE Append(Digits(n \div 10), n % 10)

filename(num) ==
    LET d == Digits(num)
    IN  IF Len(d) >= FilenameWidth THEN d
        ELSE [i \in 1..(FilenameWidth - Len(d)) |-> 0] \o d

----------------------------------------------------------------------------
(* The anomaly scans, lines 119-145.  A logger.Error entry is kept as the  *)
(* key it reports and its two zap.Any fields: block1 is the block the loop *)
(* is at, block2 the block found in blockMap.  blockMap is a function from *)
(* the keys seen so far to the block stored for each.                      *)

Report(key, b, block) == [key |-> key, block1 |-> b, block2 |-> block]

(* A loop over buf[lo..hi] is run as the loop over the first half of the   *)
(* stretch followed by the loop over the second half, st being the loop's  *)
(* state: blockMap and the entries logged so far.  The state the first     *)
(* half leaves is settled (by comparing it) before the second half is      *)
(* entered: TLC defers an operator's arguments, and a deferred chain of n  *)
(* iterations would be evaluated n levels deep.                            *)
ScanStart == [blockMap |-> <<>>, out |-> <<>>]

(* An iteration that stores every block in blockMap, so that a collision   *)
(* refers to the latest block with the key, not the first.                 *)
numberStepLatest(st, b) ==
    [blockMap |-> [k \in DOMAIN st.blockMap \cup {b.Number} |->
                      IF k = b.Number THEN b ELSE st.blockMap[k]],
     out |-> IF b.Number \in DOMAIN st.blockMap
             THEN Append(st.out, Report(b.Number, b, st.blockMap[b.Number]))
             ELSE st.out]

RECURSIVE scanNumbersLatest(_, _, _, _)
scanNumbersLatest(buf, lo, hi, st) ==
    IF lo > hi THEN st
    ELSE IF lo = hi THEN numberStepLatest(st, buf[lo])
    ELSE LET mid == (lo + hi) \div 2
             left == scanNumbersLatest(buf, lo, mid, st)
         IN  IF left = left THEN scanNumbersLatest(buf, mid + 1, hi, left) ELSE left

checkDuplicateNumbers_KeepsLatest(buf) ==
    scanNumbersLatest(buf, 1, Len(buf), ScanStart).out

(* lines 124-129: one iteration of the loop of checkDuplicateNumbers *)
numberStep(st, b) ==
    IF b.Number \in DOMAIN st.blockMap
    THEN [st EXCEPT !.out = Append(@, Report(b.Number, b, st.blockMap[b.Number]))]
    ELSE [st EXCEPT !.blockMap = @ @@ (b.Number :> b)]

(* lines 123-130: the loop of checkDuplicateNumbers over buf[lo..hi] *)
RECURSIVE scanNumbers(_, _, _, _)
scanNumbers(buf, lo, hi, st) ==
    IF lo > hi THEN st
    ELSE IF lo = hi THEN numberStep(st, buf[lo])
    ELSE LET mid == (lo + hi) \div 2
             left == scanNumbers(buf, lo, mid, st)
         IN  IF left = left THEN scanNumbers(buf, mid + 1, hi, left) ELSE left

(* checkDuplicateNumbers, lines 119-131: the entries it logs, in order *)
checkDuplicateNumbers(buf) == scanNumbers(buf, 1, Len(buf), ScanStart).out

(* lines 138-143: one iteration of the loop of checkDuplicateIds *)
idStep(st, b) ==
    IF b.Id \in DOMAIN st.blockMap
    THEN [st EXCEPT !.out = Append(@, Report(b.Id, b, st.blockMap[b.Id]))]
    ELSE [st EXCEPT !.blockMap = @ @@ (b.Id :> b)]

(* lines 137-144: the loop of checkDuplicateIds over buf[lo..hi] *)
RECURSIVE scanIds(_, _, _, _)
scanIds(buf, lo, hi, st) ==
    IF lo > hi THEN st
    ELSE IF lo = hi THEN idStep(st, buf[lo])
    ELSE LET mid == (lo + hi) \div 2
             left == scanIds(buf, lo, mid, st)
         IN  IF left = left THEN scanIds(buf, mid + 1, hi, left) ELSE left

(* checkDuplicateIds, lines 133-145: the entries it logs, in order *)
checkDuplicateIds(buf) == scanIds(buf, 1, Len(buf), ScanStart).out

(* No scan has run yet; the scans of lines 58-59 have run over buf. *)
NoScan == [ran |-> {}, numbers |-> <<>>, ids |-> <<>>]
BothScans(buf) == [ran |-> {"numbers", "ids"},
                   numbers |-> checkDuplicateNumbers(buf),
                   ids |-> checkDuplicateIds(buf)]

----------------------------------------------------------------------------
(* Results of ProcessBlock *)

Ret(kind, got, low) == [kind |-> kind, got |-> got, low |-> low]
RetNil == Ret("nil", 0, 0)
RetEOF == Ret("EOF", 0, 0)                       \* io.EOF, line 50
ErrTweak == Ret("tweak", 0, 0)                   \* line 29
ErrUnexpected == Ret("unexpectedBlock", 0, 0)    \* line 36
ErrBundleSize(n, low) == Ret("bundleSize", n, low)   \* line 60
ErrNoBlocks == Ret("noBlocks", 0, 0)             \* line 80
ErrIn(kind) == Ret(kind, 0, 0)                   \* err of WriteObject, line 112

Failures == {"tweak", "unexpectedBlock", "bundleSize", "noBlocks",
             "store", "factory", "serialize"}

IsFailure(r) == r.kind \in Failures

----------------------------------------------------------------------------
(* The serializer goroutine of one writeBundle call (lines 85-102) with    *)
(* its pipe (line 83).  The pipe of io.Pipe has no buffer: pw.Write        *)
(* returns when a Read of the other end has taken the record, so a write   *)
(* and the store's read of it are one step, and a write nobody reads       *)
(* blocks.  closed is how the writer end was closed by pw.CloseWithError   *)
(* (line 88): "eof" for a nil error.                                       *)

(* own is the slice w.blocks held when the goroutine was spawned: what the  *)
(* go statement of line 85 lets it see.  rng is the slice its range        *)
(* expression (line 96) evaluated to.                                      *)

NewUnit == [pc |-> "new", own |-> <<>>, rng |-> <<>>, idx |-> 0, closed |-> "open"]
Spawn(buf) == [NewUnit EXCEPT !.own = buf]

(* blockWriter.Write(blk), line 97: one record per block, in call order.   *)
Encode(b) == <<b.Number, b.Id>>

(* CloseWithError losing the error, as when err is shadowed in the         *)
(* goroutine and the deferred call sees the outer nil.                     *)
CloseWithError_DropsError(u, err) == [u EXCEPT !.pc = "done", !.closed = "eof"]

(* pw.CloseWithError(err), lines 87-89 *)
CloseWithError(u, err) ==
    [u EXCEPT !.pc = "done", !.closed = IF err = "nil" THEN "eof" ELSE err]

InFlush == pc \in {"overflow", "completion"}

(* The goroutine of the WriteObject call in progress. *)
Cur == Len(units)

Remove(s, i) == SubSeq(s, 1, i - 1) \o SubSeq(s, i + 1, Len(s))

(* A goroutine blocked in pw.Write (line 97) once the WriteObject call     *)
(* that read its pipe has returned: nothing reads the pipe any more (pr is *)
(* never closed), so it stays blocked for ever and its locals are never    *)
(* used again; the model keeps only that it exists.                        *)
Stuck == [pc |-> "stuck", own |-> <<>>, rng |-> <<>>, idx |-> 0, closed |-> "open"]

(* A goroutine that evaluates w.blocks (line 96) after its writeBundle has *)
(* passed line 110 reads a field the caller's thread writes (lines 53 and  *)
(* 110) with nothing ordering the two: a data race.  The read yields the   *)
(* slice as it is now, the slice as it was when the goroutine was spawned, *)
(* or a slice header torn between the two: the old array with the new      *)
(* length, or a length beyond the array it is paired with, which makes the *)
(* loop read outside the array and the process fault.                      *)
Min(a, b) == IF a <= b THEN a ELSE b
RacyReads(u, buf) == {buf, u.own, SubSeq(u.own, 1, Min(Len(u.own), Len(buf)))}
Fault == [pc |-> "fault", own |-> <<>>, rng |-> <<>>, idx |-> 0, closed |-> "open"]

(* The process runs until a goroutine faults. *)
Running == \A i \in 1..Len(units) : units[i].pc # "fault"

(* A goroutine that has returned is gone, except that the pipe of the      *)
(* WriteObject call in progress stays readable by the store.               *)
Orphan(us, i) == IF us[i].pc = "done" THEN Remove(us, i) ELSE us

Settle(us, i) == IF InFlush /\ i = Cur THEN us ELSE Orphan(us, i)

----------------------------------------------------------------------------
(* ProcessBlock and writeBundle, as functions from the accumulator's       *)
(* fields to the outcome of the atomic stretch: the new fields, where the  *)
(* caller's thread is afterwards, what is returned (when it returns), and  *)
(* what writeBundle did (wb).                                              *)

Out(low, buf, p, r, wb) == [low |-> low, blocks |-> buf, pc |-> p, ret |-> r, wb |-> wb]

(* writeBundle up to the call of store.WriteObject, lines 75-104 *)
writeBundle(low, buf, phase) ==
    IF Len(buf) = 0
    THEN Out(low, buf, "idle", ErrNoBlocks, "empty")
    ELSE Out(low, buf, phase, RetNil, "started")

(* ProcessBlockTail with the stop test > instead of >=. *)
ProcessBlockTail_StopExclusive(b, low, buf) ==
    IF stopBlockNum > 0 /\ b.Number > stopBlockNum
    THEN Out(low, buf, "idle", RetEOF, "none")
    ELSE LET nb == Append(buf, b)
         IN  IF b.Number = low + LastOffset
             THEN IF checkBundleSize /\ Len(nb) # BundleSize /\ b.Number >= BundleSize
                  THEN Out(low, nb, "idle", ErrBundleSize(Len(nb), low), "none")
                  ELSE writeBundle(low, nb, "completion")
             ELSE Out(low, nb, "idle", RetNil, "none")

(* ProcessBlockTail counting the buffer before the append of line 53. *)
ProcessBlockTail_CountBeforeAppend(b, low, buf) ==
    IF stopBlockNum > 0 /\ b.Number >= stopBlockNum
    THEN Out(low, buf, "idle", RetEOF, "none")
    ELSE LET nb == Append(buf, b)
         IN  IF b.Number = low + LastOffset
             THEN IF checkBundleSize /\ Len(buf) # BundleSize /\ b.Number >= BundleSize
                  THEN Out(low, nb, "idle", ErrBundleSize(Len(buf), low), "none")
                  ELSE writeBundle(low, nb, "completion")
             ELSE Out(low, nb, "idle", RetNil, "none")

(* ProcessBlockTail with the completion test off by one: it waits for the  *)
(* first block of the next bundle.                                         *)
ProcessBlockTail_LateFlush(b, low, buf) ==
    IF stopBlockNum > 0 /\ b.Number >= stopBlockNum
    THEN Out(low, buf, "idle", RetEOF, "none")
    ELSE LET nb == Append(buf, b)
         IN  IF b.Number = low + BundleSize
             THEN IF checkBundleSize /\ Len(nb) # BundleSize /\ b.Number >= BundleSize
                  THEN Out(low, nb, "idle", ErrBundleSize(Len(nb), low), "none")
                  ELSE writeBundle(low, nb, "completion")
             ELSE Out(low, nb, "idle", RetNil, "none")

(* ProcessBlockTail dropping the buffer when the count mismatch is found.  *)
ProcessBlockTail_DropsOnMismatch(b, low, buf) ==
    IF stopBlockNum > 0 /\ b.Number >= stopBlockNum
    THEN Out(low, buf, "idle", RetEOF, "none")
    ELSE LET nb == Append(buf, b)
         IN  IF b.Number = low + LastOffset
             THEN IF checkBundleSize /\ Len(nb) # BundleSize /\ b.Number >= BundleSize
                  THEN Out(low, <<>>, "idle", ErrBundleSize(Len(nb), low), "none")
                  ELSE writeBundle(low, nb, "completion")
             ELSE Out(low, nb, "idle", RetNil, "none")

(* lines 49-68.  The scans of lines 58-59 only log (see Apply): they run   *)
(* exactly when the count mismatch is returned.                            *)
ProcessBlockTail(b, low, buf) ==
    IF stopBlockNum > 0 /\ b.Number >= stopBlockNum
    THEN Out(low, buf, "idle", RetEOF, "none")
    ELSE LET nb == Append(buf, b)
         IN  IF b.Number = low + LastOffset
             THEN IF checkBundleSize /\ Len(nb) # BundleSize /\ b.Number >= BundleSize
                  THEN Out(low, nb, "idle", ErrBundleSize(Len(nb), low), "none")
                  ELSE writeBundle(low, nb, "completion")
             ELSE Out(low, nb, "idle", RetNil, "none")

(* ProcessBlockHead without the test of lines 35-37. *)
ProcessBlockHead_NoBoundaryCheck(b, low, buf) ==
    LET low1 == IF low = 0 /\ b.Number > LastOffset
                THEN lowBoundary(b.Number) ELSE low
    IN  IF b.Number > low1 + LastOffset
        THEN writeBundle(low1, buf, "overflow")
        ELSE ProcessBlockTail(b, low1, buf)

(* lines 34-47, then the tail when no flush is needed *)
ProcessBlockHead(b, low, buf) ==
    IF low = 0 /\ b.Number > LastOffset
          /\ b.Number % BundleSize # 0 /\ b.Number # firstStreamable
    THEN Out(low, buf, "idle", ErrUnexpected, "none")
    ELSE LET low1 == IF low = 0 /\ b.Number > LastOffset
                     THEN lowBoundary(b.Number) ELSE low
         IN  IF b.Number > low1 + LastOffset
             THEN writeBundle(low1, buf, "overflow")
             ELSE ProcessBlockTail(b, low1, buf)

(* writeBundleEnd returning early on a store error, before lines 109-110.  *)
writeBundleEnd_ReturnOnError(err, low, buf) ==
    IF err # "nil" THEN [low |-> low, blocks |-> buf, err |-> err]
    ELSE [low |-> low + BundleSize, blocks |-> <<>>, err |-> err]

(* writeBundle after WriteObject has returned err, lines 105-112 *)
writeBundleEnd(err, low, buf) ==
    [low |-> low + BundleSize, blocks |-> <<>>, err |-> err]

(* ProcessBlock after writeBundle has returned e.err: lines 44-46 and      *)
(* 49-68 for the overflow flush, lines 62-65 for the completion flush.     *)
ProcessBlockResume(e, phase, b) ==
    IF e.err # "nil" THEN Out(e.low, e.blocks, "idle", ErrIn(e.err), "none")
    ELSE IF phase = "overflow" THEN ProcessBlockTail(b, e.low, e.blocks)
    ELSE Out(e.low, e.blocks, "idle", RetNil, "none")

----------------------------------------------------------------------------
(* Initial state: the struct as constructed, for each configuration.       *)

Init ==
    /\ lowBlockNum = 0
    /\ blocks = <<>>
    /\ stopBlockNum \in StopLimits
    /\ checkBundleSize \in BOOLEAN
    /\ firstStreamable \in FirstStreamables
    /\ pc = "idle"
    /\ blk = NoBlock
    /\ ret = Ret("none", 0, 0)
    /\ units = <<>>
    /\ recv = <<>>
    /\ writes = <<>>
    /\ bundle = <<>>
    /\ lastWB = [called |-> FALSE, before |-> 0, after |-> 0, len |-> 0, err |-> "nil"]
    /\ fed = [calls |-> 0, first |-> -1, prev |-> -1,
              consec |-> TRUE, strict |-> TRUE, order |-> TRUE, near |-> TRUE,
              kept |-> 0]
    /\ used = 0
    /\ logged = NoScan

(* The effect of an atomic stretch o of the n-th call of ProcessBlock. us  *)
(* is the list of live goroutines before a new one is spawned (line 85).   *)
(* The scans of lines 58-59 run over the buffer the count mismatch leaves. *)
Apply(o, n, us) ==
    /\ lowBlockNum' = o.low
    /\ blocks' = o.blocks
    /\ pc' = o.pc
    /\ ret' = IF o.pc = "idle" THEN o.ret ELSE ret
    /\ logged' = IF o.ret.kind = "bundleSize" THEN BothScans(o.blocks) ELSE logged
    /\ IF o.wb = "started"
       THEN /\ units' = Append(us, Spawn(o.blocks))
            /\ recv' = <<>>
            /\ writes' = Append(writes, [file |-> filename(o.low),
                                         during |-> n,
                                         size |-> Len(o.blocks)])
            /\ bundle' = o.blocks
       ELSE /\ units' = us
            /\ UNCHANGED <<recv, writes, bundle>>

(* A ProcessBlock call is made between calls, and not after io.EOF.        *)
CanCall == pc = "idle" /\ ret.kind # "EOF" /\ Running

(* The input so far once block b is fed: the number of calls, the first    *)
(* number fed and the one fed before b, and whether the numbers fed were   *)
(* consecutive, strictly increasing, non-decreasing, and never further     *)
(* ahead than the bundle after that of the block before; kept counts the   *)
(* blocks appended to the buffer (line 53) so far.                         *)
Shape(b) ==
    [calls  |-> fed.calls + 1,
     first  |-> IF blk = NoBlock THEN b.Number ELSE fed.first,
     prev   |-> blk.Number,
     consec |-> fed.consec /\ (blk = NoBlock \/ b.Number = blk.Number + 1),
     strict |-> fed.strict /\ (blk = NoBlock \/ b.Number > blk.Number),
     order  |-> fed.order /\ (blk = NoBlock \/ b.Number >= blk.Number),
     near   |-> fed.near /\ (blk = NoBlock
                   \/ lowBoundary(b.Number) <= lowBoundary(blk.Number) + BundleSize),
     kept   |-> fed.kept]

(* Whether line 53 is executed for block b: in the stretch of ProcessBlock *)
(* that starts the call with boundary low, and in the stretch that follows *)
(* its overflow flush.                                                     *)
Stopped(b) == stopBlockNum > 0 /\ b.Number >= stopBlockNum
AppendsAtOnce(b, low) ==
    LET low1 == IF low = 0 /\ b.Number > LastOffset THEN lowBoundary(b.Number) ELSE low
    IN  /\ ~(low = 0 /\ b.Number > LastOffset
              /\ b.Number % BundleSize # 0 /\ b.Number # firstStreamable)
        /\ b.Number <= low1 + LastOffset
        /\ ~Stopped(b)
AppendsOnResume(err, phase, b) == err = "nil" /\ phase = "overflow" /\ ~Stopped(b)
Count(p) == IF p THEN 1 ELSE 0

(* ProcessBlock(blk), lines 25-69, up to its return or to WriteObject.     *)
(* A writeBundle that finds the buffer empty was entered with lowBlockNum  *)
(* as the call found it: line 38 and the overflow flush never happen in    *)
(* the same call, since blk.Number <= lowBoundary(blk.Number) + 99.        *)
ProcessBlock(b) ==
    /\ CanCall
    /\ b.Number <= MaxBlockNum
    /\ blk' = b
    /\ fed' = [Shape(b) EXCEPT !.kept = @ + Count(AppendsAtOnce(b, lowBlockNum))]
    /\ LET o == ProcessBlockHead(b, lowBlockNum, blocks)
       IN  /\ Apply(o, fed.calls + 1, units)
           /\ lastWB' = IF o.wb = "empty"
                        THEN [called |-> TRUE, before |-> lowBlockNum, after |-> o.low,
                              len |-> Len(o.blocks), err |-> "noBlocks"]
                        ELSE lastWB
    /\ UNCHANGED config

(* TweakFails with the hook run after the append of line 53. *)
TweakFails_AfterAppend(b) ==
    /\ CanCall
    /\ b.Number <= MaxBlockNum
    /\ used < MaxIrregular
    /\ used' = used + 1
    /\ blk' = b
    /\ fed' = [Shape(b) EXCEPT !.consec = FALSE]
    /\ ret' = ErrTweak
    /\ b.Number % BundleSize \in TweakFailAt
    /\ blocks' = Append(blocks, b)
    /\ UNCHANGED <<lowBlockNum, pc, units, recv, writes, bundle, lastWB, logged>>
    /\ UNCHANGED config

(* lines 26-30: the hook fails on the incoming block.                      *)
TweakFails(b) ==
    /\ CanCall
    /\ b.Number <= MaxBlockNum
    /\ used < MaxIrregular
    /\ used' = used + 1
    /\ blk' = b
    /\ fed' = [Shape(b) EXCEPT !.consec = FALSE]
    /\ ret' = ErrTweak
    /\ b.Number % BundleSize \in TweakFailAt
    /\ UNCHANGED <<lowBlockNum, blocks, pc, units, recv, writes, bundle, lastWB, logged>>
    /\ UNCHANGED config

(* The caller's choices of the next block. *)
FirstBlocks == {Block(n, 0) : n \in StartNums}
NextBlock == Block(blk.Number + 1, 0)
DupBlocks == {Block(blk.Number, v) : v \in {0, 1}}
JumpBlocks == {Block(n, 0) : n \in {t \in JumpTo : t > blk.Number + 1}}

FeedFirst ==
    /\ blk = NoBlock
    /\ \E b \in FirstBlocks : (ProcessBlock(b) /\ UNCHANGED used) \/ TweakFails(b)

FeedNext ==
    /\ blk # NoBlock
    /\ (ProcessBlock(NextBlock) /\ UNCHANGED used) \/ TweakFails(NextBlock)

FeedDuplicate ==
    /\ blk # NoBlock
    /\ blk.Number % BundleSize \in DupAt
    /\ used < MaxIrregular
    /\ \E b \in DupBlocks :
          ProcessBlock(b) /\ used' = used + 1

FeedJump ==
    /\ blk # NoBlock
    /\ blk.Number % BundleSize \in JumpFrom
    /\ used < MaxIrregular
    /\ \E b \in JumpBlocks :
          ProcessBlock(b) /\ used' = used + 1

----------------------------------------------------------------------------
(* The serializer goroutine, lines 85-102 *)

SetUnit(i, u) == Settle([units EXCEPT ![i] = u], i)

(* line 91: writerFactory.New(pw) *)
UnitNew(i) ==
    /\ Running
    /\ units[i].pc = "new"
    /\ \/ /\ units' = SetUnit(i, [units[i] EXCEPT !.pc = "range"])
          /\ UNCHANGED used
       \/ /\ used < MaxIrregular
          /\ used' = used + 1
          /\ units' = SetUnit(i, CloseWithError(units[i], "factory"))
    /\ UNCHANGED <<lowBlockNum, blocks, pc, blk, ret, recv, writes, bundle, lastWB, fed, logged>>
    /\ UNCHANGED config

(* UnitRange with the loop starting at the second block. *)
UnitRange_SkipsFirst(i) ==
    /\ Running
    /\ units[i].pc = "range"
    /\ units' = SetUnit(i, [units[i] EXCEPT !.pc = "write", !.rng = blocks, !.idx = 2])
    /\ UNCHANGED <<lowBlockNum, blocks, pc, blk, ret, recv, writes, bundle, lastWB, fed, used, logged>>
    /\ UNCHANGED config

(* line 96: the range expression w.blocks is evaluated once.  During the   *)
(* goroutine's own flush the caller's thread is inside WriteObject and     *)
(* w.blocks is what it was at line 85; afterwards the read is racy.        *)
UnitRange(i) ==
    /\ Running
    /\ units[i].pc = "range"
    /\ IF InFlush /\ i = Cur
       THEN units' = SetUnit(i, [units[i] EXCEPT !.pc = "write", !.rng = blocks, !.idx = 1])
       ELSE \/ \E r \in RacyReads(units[i], blocks) :
                units' = SetUnit(i, [units[i] EXCEPT !.pc = "write", !.rng = r, !.idx = 1])
            \/ units' = [units EXCEPT ![i] = Fault]
    /\ UNCHANGED <<lowBlockNum, blocks, pc, blk, ret, recv, writes, bundle, lastWB, fed, used, logged>>
    /\ UNCHANGED config

(* lines 96-101: the next iteration, or the end of the loop and line 88.   *)
(* blockWriter.Write either fails or writes the record to the pipe, where  *)
(* the store in WriteObject reads it; with no WriteObject reading this     *)
(* pipe the goroutine blocks.                                              *)
UnitWrite(i) ==
    /\ Running
    /\ units[i].pc = "write"
    /\ LET u == units[i]
       IN  IF u.idx > Len(u.rng)
           THEN /\ units' = SetUnit(i, CloseWithError(u, "nil"))
                /\ UNCHANGED <<recv, used>>
           ELSE \/ /\ InFlush /\ i = Cur
                   /\ recv' = Append(recv, Encode(u.rng[u.idx]))
                   /\ units' = [units EXCEPT ![i] = [u EXCEPT !.idx = @ + 1]]
                   /\ UNCHANGED used
                \/ /\ ~(InFlush /\ i = Cur)
                   /\ units' = [units EXCEPT ![i] = Stuck]
                   /\ UNCHANGED <<recv, used>>
                \/ /\ u.idx \in WriteFailAt
                   /\ used < MaxIrregular
                   /\ used' = used + 1
                   /\ units' = SetUnit(i, CloseWithError(u, "serialize"))
                   /\ UNCHANGED recv
    /\ UNCHANGED <<lowBlockNum, blocks, pc, blk, ret, writes, bundle, lastWB, fed, logged>>
    /\ UNCHANGED config

----------------------------------------------------------------------------
(* store.WriteObject(ctx, file, pr), line 104, on the caller's thread.     *)
(* The store reads the pipe (its reads are in UnitWrite) and returns nil    *)
(* only once it has read the end of the stream; it returns the error of a  *)
(* failed read; it may fail on its own at any point.                       *)

(* WriteObject returns err; lines 105-112 and the rest of ProcessBlock.    *)
StoreReturn(err) ==
    /\ InFlush
    /\ Running
    /\ LET e == writeBundleEnd(err, lowBlockNum, blocks)
           o == ProcessBlockResume(e, pc, blk)
           us == Orphan(units, Cur)
       IN  /\ Apply(o, fed.calls, us)
           /\ lastWB' = [called |-> TRUE, before |-> lowBlockNum, after |-> e.low,
                         len |-> Len(e.blocks), err |-> err]
    /\ fed' = [fed EXCEPT !.kept = @ + Count(AppendsOnResume(err, pc, blk))]
    /\ UNCHANGED blk
    /\ UNCHANGED config

StoreSucceeds ==
    /\ InFlush
    /\ units[Cur].closed = "eof"
    /\ StoreReturn("nil")
    /\ UNCHANGED used

StoreSeesError ==
    /\ InFlush
    /\ units[Cur].closed \in {"factory", "serialize"}
    /\ StoreReturn(units[Cur].closed)
    /\ UNCHANGED used

StoreFails ==
    /\ InFlush
    /\ Len(recv) \in StoreFailAfter \/ units[Cur].closed = "eof"
    /\ used < MaxIrregular
    /\ used' = used + 1
    /\ StoreReturn("store")

----------------------------------------------------------------------------
Next ==
    \/ FeedFirst
    \/ FeedNext
    \/ FeedDuplicate
    \/ FeedJump
    \/ \E i \in 1..Len(units) : UnitNew(i)
    \/ \E i \in 1..Len(units) : UnitRange(i)
    \/ \E i \in 1..Len(units) : UnitWrite(i)
    \/ StoreSucceeds
    \/ StoreSeesError
    \/ StoreFails

Spec == Init /\ [][Next]_vars

----------------------------------------------------------------------------
(* The anomaly scans on their own: an accumulator between calls whose      *)
(* buffer holds any blocks of bundle 200 (numbers and ids repeat freely,   *)
(* as the input decides), and the two scans run over it in any order.      *)

ScanNums == {200, 201, 202}
ScanIds == {1, 2, 3}
ScanBlocks == [Number : ScanNums, Id : ScanIds]
ScanBuffers == UNION {[1..n -> ScanBlocks] : n \in 0..MaxScanLen}

InitScan ==
    /\ lowBlockNum = 200
    /\ blocks \in ScanBuffers
    /\ stopBlockNum = 0
    /\ checkBundleSize = TRUE
    /\ firstStreamable = 2
    /\ pc = "idle"
    /\ blk = NoBlock
    /\ ret = Ret("none", 0, 0)
    /\ units = <<>>
    /\ recv = <<>>
    /\ writes = <<>>
    /\ bundle = <<>>
    /\ lastWB = [called |-> FALSE, before |-> 0, after |-> 0, len |-> 0, err |-> "nil"]
    /\ fed = [calls |-> 0, first |-> -1, prev |-> -1,
              consec |-> TRUE, strict |-> TRUE, order |-> TRUE, near |-> TRUE,
              kept |-> 0]
    /\ used = 0
    /\ logged = NoScan

(* w.checkDuplicateNumbers(), lines 119-131 *)
CheckDuplicateNumbers ==
    /\ pc = "idle"
    /\ logged' = [logged EXCEPT !.ran = @ \cup {"numbers"},
                                !.numbers = checkDuplicateNumbers(blocks)]
    /\ UNCHANGED <<lowBlockNum, blocks, pc, blk, ret, units, recv, writes, bundle,
                   lastWB, fed, used>>
    /\ UNCHANGED config

(* w.checkDuplicateIds(), lines 133-145 *)
CheckDuplicateIds ==
    /\ pc = "idle"
    /\ logged' = [logged EXCEPT !.ran = @ \cup {"ids"},
                                !.ids = checkDuplicateIds(blocks)]
    /\ UNCHANGED <<lowBlockNum, blocks, pc, blk, ret, units, recv, writes, bundle,
                   lastWB, fed, used>>
    /\ UNCHANGED config

NextScan ==
    \/ CheckDuplicateNumbers
    \/ CheckDuplicateIds

SpecScan == InitScan /\ [][NextScan]_vars

----------------------------------------------------------------------------
(* Properties *)

Nums(s) == [i \in 1..Len(s) |-> s[i].Number]

(* The number a printed name denotes (what strconv.ParseUint reads). *)
RECURSIVE ParseName(_)
ParseName(d) ==
    IF Len(d) = 0 THEN 0
    ELSE 10 * ParseName(SubSeq(d, 1, Len(d) - 1)) + d[Len(d)]

(* The deserializer matching Encode, applied to what a store received. *)
Decode(r) == [Number |-> r[1], Id |-> r[2]]
DecodeAll(rs) == [i \in 1..Len(rs) |-> Decode(rs[i])]

IsName(d) == Len(d) = FilenameWidth /\ \A i \in 1..Len(d) : d[i] \in 0..9

(* The blocks numbered b..b+n-1, as the caller feeds them in order. *)
Consecutive(b, n) == [i \in 1..n |-> Block(b + i - 1, 0)]

(* A fresh accumulator that has so far been fed b, b+1, ... up to at most  *)
(* b+99 for a multiple of 100 b, with no failing collaborator and no stop  *)
(* limit at or below b+99.                                                 *)
C1_FedBundle ==
    /\ fed.calls >= 1
    /\ fed.consec
    /\ used = 0
    /\ fed.first % 100 = 0
    /\ blk.Number <= fed.first + 99
    /\ stopBlockNum = 0 \/ stopBlockNum > fed.first + 99

(* C1: fed the 100 blocks b..b+99 in order, a fresh accumulator makes     *)
(* exactly one store write, in the call for block b+99 (the 100th call),   *)
(* named by the ten zero-padded decimal digits of b, of a bundle holding   *)
(* the 100 blocks in input order; afterwards lowBlockNum = b+100 and the   *)
(* buffer is empty.                                                        *)
C1_OneWritePerFullBundle ==
    C1_FedBundle =>
        LET b == fed.first
        IN  IF blk.Number < b + 99
            THEN pc = "idle" /\ writes = <<>> /\ ret = RetNil
            ELSE /\ Len(writes) = 1
                 /\ writes[1].during = 100
                 /\ writes[1].size = 100
                 /\ IsName(writes[1].file)
                 /\ ParseName(writes[1].file) = b
                 /\ bundle = Consecutive(b, 100)
                 /\ pc = "idle" => /\ lowBlockNum = b + 100
                                   /\ blocks = <<>>
                                   /\ ret = RetNil
                                   /\ DecodeAll(recv) = Consecutive(b, 100)

C1_Witness ==
    /\ C1_FedBundle
    /\ fed.first = 100
    /\ blk.Number = 199
    /\ pc = "idle"
    /\ Len(writes) = 1
    /\ lowBlockNum = 200

(* The input 0..49 then 150, with size enforcement disabled and a first    *)
(* streamable block other than 150.                                        *)
C2_Fed ==
    /\ fed.first = 0
    /\ fed.prev = 49
    /\ blk.Number = 150
    /\ fed.calls = 51
    /\ ~checkBundleSize
    /\ firstStreamable # 150

(* C2: after 0..49, the call for block 150 returns no failure and makes    *)
(* one flush: the 50 blocks are written under the name of boundary 0 and   *)
(* block 150 starts the new bundle (lowBlockNum = 100, buffer = [150]).    *)
C2_GapFlushesShortBundle ==
    (C2_Fed /\ pc = "idle") =>
        /\ ret = RetNil
        /\ Len(writes) = 1
        /\ writes[1].size = 50
        /\ ParseName(writes[1].file) = 0
        /\ lowBlockNum = 100
        /\ Nums(blocks) = <<150>>

C4_CallAtStop ==
    /\ stopBlockNum > 0
    /\ fed.calls >= 1
    /\ blk.Number >= stopBlockNum
    /\ pc = "idle"
    /\ ret.kind \notin {"tweak", "unexpectedBlock"}

NoneBeyondStop == \A i \in 1..Len(blocks) : blocks[i].Number < stopBlockNum

(* C4, as stated: such a call returns io.EOF, never a failure, and does    *)
(* not append the block.                                                   *)
C4_StopNeverFails ==
    C4_CallAtStop => ret = RetEOF /\ NoneBeyondStop

(* C4, amended: such a call returns io.EOF unless the overflow flush of    *)
(* lines 42-47 failed (empty buffer, store or serialization failure), in   *)
(* which case it returns that failure; in no case is a block at or beyond  *)
(* the stop limit appended.  With S = 300, block 300 fed after 299 was     *)
(* appended and flushed returns io.EOF.                                    *)
C4_StopOrOverflowFailure ==
    /\ stopBlockNum > 0 => NoneBeyondStop
    /\ C4_CallAtStop =>
          \/ ret = RetEOF
          \/ /\ ret.kind \in {"noBlocks", "store", "factory", "serialize"}
             /\ lastWB.called
             /\ lastWB.err = ret.kind
    /\ C4_CallAtStop /\ blk.Number = lowBlockNum /\ lastWB.called /\ lastWB.err = "nil"
          => ret = RetEOF

C4_Witness ==
    /\ C4_CallAtStop
    /\ stopBlockNum = 300
    /\ fed.first = 0
    /\ fed.consec
    /\ used = 0
    /\ fed.prev = 299
    /\ blk.Number = 300
    /\ ret = RetEOF
    /\ lowBlockNum = 300
    /\ blocks = <<>>

(* WriteObject returns in this step (line 109 is the only change of        *)
(* lowBlockNum inside a flush).                                            *)
FlushReturns == InFlush /\ lowBlockNum' # lowBlockNum

(* A call that got past the hook appends (line 53) a block that is not     *)
(* stopped by the stop limit: right away, or after its overflow flush.     *)
C5_AppendsDirectly ==
    /\ pc = "idle"
    /\ fed'.calls = fed.calls + 1
    /\ ret'.kind # "tweak"
    /\ writes # <<>>
    /\ blk'.Number = lowBlockNum + 99

C5_AppendsAfterOverflow ==
    /\ pc = "overflow"
    /\ FlushReturns
    /\ lastWB'.err = "nil"
    /\ blk.Number = lowBlockNum + 100 + 99

(* C5, as stated: with size enforcement, once block b+99 has been appended *)
(* with lowBlockNum = b to a buffer that is not the first bundle (a store  *)
(* write has been made) and then holds N # 100 blocks, the call has failed *)
(* with the count mismatch reporting N and b and has issued no store       *)
(* write.                                                                  *)
C5_MismatchCallWritesNothing ==
    (/\ pc = "idle"
     /\ checkBundleSize
     /\ ret.kind # "tweak"
     /\ writes # <<>>
     /\ blocks # <<>>
     /\ blk = blocks[Len(blocks)]
     /\ blk.Number = lowBlockNum + 99
     /\ Len(blocks) # 100)
    => /\ ret = ErrBundleSize(Len(blocks), lowBlockNum)
       /\ \A i \in 1..Len(writes) : writes[i].during # fed.calls

(* C5, amended: with size enforcement, when block b+99 is appended with    *)
(* lowBlockNum = b to a bundle that is not the first and the buffer then   *)
(* holds N # 100 blocks, ProcessBlock fails with the count mismatch        *)
(* reporting N and b, and that buffer is not written: the step that        *)
(* appends issues no store write and leaves lowBlockNum at b.  (The call   *)
(* may have written the previous buffer in its overflow flush before the   *)
(* append.)                                                                *)
C5_MismatchFailsWithoutWritingBuffer ==
    [][(checkBundleSize /\ ~(stopBlockNum > 0 /\ blk'.Number >= stopBlockNum)) =>
          /\ (C5_AppendsDirectly /\ Len(blocks) + 1 # 100) =>
                /\ pc' = "idle"
                /\ ret' = ErrBundleSize(Len(blocks) + 1, lowBlockNum)
                /\ writes' = writes
                /\ lowBlockNum' = lowBlockNum
                /\ blocks' = Append(blocks, blk')
          /\ C5_AppendsAfterOverflow =>
                /\ pc' = "idle"
                /\ ret' = ErrBundleSize(1, lowBlockNum + 100)
                /\ writes' = writes
                /\ lowBlockNum' = lowBlockNum + 100
                /\ blocks' = <<blk>>]_vars

C5_Witness ==
    /\ pc = "idle"
    /\ checkBundleSize
    /\ writes # <<>>
    /\ blk.Number = 299
    /\ lowBlockNum = 200
    /\ Len(blocks) = 57
    /\ ret = ErrBundleSize(57, 200)

(* The first call, for a block above 99 that is neither a multiple of 100  *)
(* nor the first streamable block, and whose hook did not fail.            *)
C6_FirstBlockOffBoundary ==
    /\ fed.calls = 1
    /\ blk.Number > 99
    /\ blk.Number % 100 # 0
    /\ blk.Number # firstStreamable
    /\ ret.kind # "tweak"

(* C6: such a first call fails with the boundary violation, writes nothing *)
(* to the store and leaves lowBlockNum at 0 and the buffer empty.          *)
C6_FirstBlockRejected ==
    C6_FirstBlockOffBoundary =>
        /\ pc = "idle"
        /\ ret = ErrUnexpected
        /\ writes = <<>>
        /\ units = <<>>
        /\ lowBlockNum = 0
        /\ blocks = <<>>

C6_Witness ==
    /\ C6_FirstBlockOffBoundary
    /\ blk.Number = 150
    /\ ret = ErrUnexpected
    /\ pc = "idle"

(* C7: for input in non-decreasing order, between calls every block of the *)
(* buffer is numbered in [lowBlockNum, lowBlockNum+99]; the one exception  *)
(* is a block that lies ahead of the bundle, appended by a call whose      *)
(* overflow flush advanced the boundary (so a flush has been invoked).     *)
C7_BufferWithinBundle ==
    (fed.order /\ pc = "idle") =>
        \A i \in 1..Len(blocks) :
            \/ blocks[i].Number \in lowBlockNum..(lowBlockNum + 99)
            \/ blocks[i].Number > lowBlockNum + 99 /\ lastWB.called

(* C8: the goroutine spawned by a flush has returned by the time the flush *)
(* returns: the only live goroutine is that of a flush in progress.        *)
C8_NoUnitOutlivesFlush ==
    \A i \in 1..Len(units) : InFlush /\ i = Cur

(* C9: when the serializer factory or a block write fails, the pipe is     *)
(* closed with that error (never cleanly), and the flush whose store read  *)
(* the pipe returns a failure (that error, or the store's own if it gave   *)
(* up by itself), as does ProcessBlock; a flush returns success only when  *)
(* the pipe was closed cleanly after every block of the bundle was written *)
(* and read.                                                               *)
C9_SerializationFailurePropagates ==
    /\ [](\A i \in 1..Len(units) :
            units[i].pc = "done" =>
               units[i].closed = IF units[i].idx = 0 THEN "factory"
                                 ELSE IF units[i].idx <= Len(units[i].rng) THEN "serialize"
                                 ELSE "eof")
    /\ [][FlushReturns =>
            /\ units[Cur].closed \in {"factory", "serialize"} =>
                  /\ lastWB'.err \in {units[Cur].closed, "store"}
                  /\ pc' = "idle"
                  /\ ret' = ErrIn(lastWB'.err)
                  /\ IsFailure(ret')
            /\ lastWB'.err = "nil" =>
                  /\ units[Cur].closed = "eof"
                  /\ recv = [i \in 1..Len(bundle) |-> Encode(bundle[i])]]_vars

C9_Witness ==
    /\ pc = "idle"
    /\ ret = ErrIn("serialize")
    /\ lastWB.called
    /\ lastWB.err = "serialize"

(* C10: what the store reads in one flush is always a prefix of the        *)
(* records of the buffer as it was when the flush was invoked, in buffer   *)
(* order and each once; the clean end of the stream comes only after the   *)
(* last of them, so a store that read to the end has received records that *)
(* decode to exactly that sequence of blocks.                              *)
C10_StoreReceivesBundleInOrder ==
    /\ Len(recv) <= Len(bundle)
    /\ \A i \in 1..Len(recv) : recv[i] = Encode(bundle[i])
    /\ (InFlush /\ units[Cur].closed = "eof") => DecodeAll(recv) = bundle
    /\ (~InFlush /\ lastWB.called /\ lastWB.err = "nil") => DecodeAll(recv) = bundle

C10_Witness ==
    /\ ~InFlush
    /\ lastWB.called
    /\ lastWB.err = "nil"
    /\ Len(recv) = 100
    /\ DecodeAll(recv) = bundle
    /\ blocks = <<>>

(* For the sequence ks of the keys of a buffer: the positions whose key    *)
(* already occurs earlier, the first position holding the key of position  *)
(* j, and the rank of j in a set D of positions.                           *)
Ids(s) == [i \in 1..Len(s) |-> s[i].Id]
Dups(ks) == {j \in 1..Len(ks) : \E i \in 1..(j - 1) : ks[i] = ks[j]}
FirstWith(ks, j) ==
    CHOOSE i \in 1..j : ks[i] = ks[j] /\ \A h \in 1..(i - 1) : ks[h] # ks[j]
Rank(D, j) == Cardinality({x \in D : x <= j})

(* reports holds one entry per position of Dups, in buffer order, each     *)
(* naming the block at that position and the first block with its key.     *)
OnePerRepeat(reports, buf, ks) ==
    LET D == Dups(ks)
    IN  /\ Len(reports) = Cardinality(D)
        /\ \A j \in D :
              reports[Rank(D, j)] = Report(ks[j], buf[j], buf[FirstWith(ks, j)])

(* C11: run over a buffer, the duplicate-number scan logs one collision    *)
(* for every block whose number occurs earlier in the buffer, naming that  *)
(* block and the first block with the number; the duplicate-id scan does   *)
(* the same keyed by id; a scan changes neither the buffer nor lowBlockNum *)
(* and produces no failure.                                                *)
C11_ScansReportEveryRepeat ==
    /\ []("numbers" \in logged.ran => OnePerRepeat(logged.numbers, blocks, Nums(blocks)))
    /\ []("ids" \in logged.ran => OnePerRepeat(logged.ids, blocks, Ids(blocks)))
    /\ [][logged' # logged =>
            /\ blocks' = blocks
            /\ lowBlockNum' = lowBlockNum
            /\ pc' = pc
            /\ ret' = ret]_vars

(* Three blocks sharing a number under three ids: two number collisions,   *)
(* both against the first block, and no id collision; and a buffer of two  *)
(* blocks gives exactly one.                                               *)
C11_Witness ==
    /\ logged.ran = {"numbers", "ids"}
    /\ Len(blocks) = 3
    /\ blocks[1].Number = blocks[2].Number /\ blocks[2].Number = blocks[3].Number
    /\ Cardinality({blocks[i].Id : i \in 1..3}) = 3
    /\ Len(logged.numbers) = 2
    /\ logged.numbers[1] = Report(blocks[1].Number, blocks[2], blocks[1])
    /\ logged.numbers[2] = Report(blocks[1].Number, blocks[3], blocks[1])
    /\ logged.ids = <<>>

(* A fresh accumulator with size enforcement whose first block was the     *)
(* first streamable block F (F > 99, not a multiple of 100) and which has  *)
(* been fed F, F+1, ... up to lowBoundary(F)+99, with no failing           *)
(* collaborator and no stop limit in the way.                              *)
C12_Fed ==
    /\ checkBundleSize
    /\ fed.calls >= 1
    /\ fed.first = firstStreamable
    /\ firstStreamable > 99
    /\ firstStreamable % 100 # 0
    /\ fed.consec
    /\ used = 0
    /\ blk.Number = lowBoundary(fed.first) + 99
    /\ stopBlockNum = 0 \/ stopBlockNum > blk.Number

(* C12: such an accumulator flushes the short first bundle in the call for *)
(* block lowBoundary(F)+99 (one store write, of the blocks F..that block)  *)
(* and the call returns no count-mismatch failure.                         *)
C12_FirstBundleNotSizeChecked ==
    C12_Fed =>
        /\ Len(writes) = 1
        /\ writes[1].size = blk.Number - fed.first + 1
        /\ pc = "idle" => ret = RetNil

(* C13: a call whose hook fails returns the failure wrapping the hook's,   *)
(* and leaves lowBlockNum and the buffer as they were, issues no store     *)
(* write and spawns no goroutine.                                          *)
C13_HookFailureChangesNothing ==
    [][(fed'.calls = fed.calls + 1 /\ pc' = "idle" /\ ret'.kind = "tweak") =>
          /\ ret' = ErrTweak
          /\ IsFailure(ret')
          /\ lowBlockNum' = lowBlockNum
          /\ blocks' = blocks
          /\ writes' = writes
          /\ units' = units
          /\ recv' = recv]_vars

(* The hook failed on block 150, after 0..99 were flushed and 100..149     *)
(* buffered.                                                               *)
C13_Witness ==
    /\ pc = "idle"
    /\ ret = ErrTweak
    /\ blk.Number = 150
    /\ lowBlockNum = 100
    /\ Len(blocks) = 50
    /\ blocks[50].Number = 149
    /\ Len(writes) = 1

(* C14: once a block has been appended (it is in the buffer, or a store    *)
(* write has been made), no step sets lowBlockNum other than the return of *)
(* a flush, which adds 100, and no call fails the boundary validation.     *)
C14_BoundaryOnlyOnFirstBlock ==
    [][(blocks # <<>> \/ writes # <<>>) =>
          /\ lowBlockNum' # lowBlockNum =>
                InFlush /\ lowBlockNum' = lowBlockNum + 100
          /\ (fed'.calls = fed.calls + 1 /\ pc' = "idle") =>
                ret'.kind # "unexpectedBlock"]_vars

(* C15: a serializer goroutine iterates over the buffer of its own flush:  *)
(* the slice its range expression read is the slice w.blocks held when the *)
(* goroutine was spawned, whatever the interleaving, and no read of the    *)
(* buffer faults.                                                          *)
C15_UnitReadsOwnBuffer ==
    \A i \in 1..Len(units) :
        /\ units[i].pc = "write" => units[i].rng = units[i].own
        /\ units[i].pc # "fault"

(* C16: with size enforcement, every store write after the accumulator's   *)
(* first, under the name of a boundary >= 100, is of exactly 100 blocks.   *)
C16_NoUndersizedBundle ==
    checkBundleSize =>
        \A i \in 2..Len(writes) :
            ParseName(writes[i].file) >= 100 => writes[i].size = 100

(* C17: for a strictly increasing input (here one in which no block lies   *)
(* further ahead than the bundle after that of the block before it), the   *)
(* bundle of the last store write, made under the name of boundary f,      *)
(* holds only blocks numbered in [f, f+99].                                *)
C17_BundleWithinItsRange ==
    (fed.strict /\ fed.near /\ writes # <<>>) =>
        LET f == ParseName(writes[Len(writes)].file)
        IN  \A i \in 1..Len(bundle) : bundle[i].Number \in f..(f + 99)

(* C18: lowBlockNum is always a multiple of 100 and no step decreases it;  *)
(* the names of the store writes made so far denote strictly increasing    *)
(* boundaries, so no name is used twice.                                   *)
C18_BoundaryAlignedNamesIncrease ==
    /\ [](lowBlockNum % 100 = 0)
    /\ [](\A i \in 1..Len(writes) : \A j \in 1..Len(writes) :
             (i < j) => (/\ ParseName(writes[i].file) < ParseName(writes[j].file)
                         /\ writes[i].file # writes[j].file))
    /\ [][lowBlockNum' >= lowBlockNum]_vars

(* Three bundles written, under the names of 0, 100 and 200. *)
C18_Witness ==
    /\ pc = "idle"
    /\ Len(writes) = 3
    /\ ParseName(writes[1].file) = 0
    /\ ParseName(writes[2].file) = 100
    /\ ParseName(writes[3].file) = 200
    /\ lowBlockNum = 300

(* A finished call of a strictly increasing input without size enforcement *)
(* whose block lies more than one ahead of the block before it, this gap   *)
(* being the run's only irregularity: no collaborator has failed.          *)
C19_CallAfterGap ==
    /\ pc = "idle"
    /\ ~checkBundleSize
    /\ fed.strict
    /\ fed.calls >= 2
    /\ blk.Number > fed.prev + 1
    /\ used = 1

(* C19: when such a call fails in its flush, the flush has advanced the     *)
(* boundary by 100, so that lowBlockNum catches up with the input and       *)
(* failures do not repeat for ever.                                         *)
C19_FailedFlushAdvances ==
    (C19_CallAfterGap /\ ret.kind = "noBlocks") =>
        /\ lastWB.called
        /\ lowBlockNum = lastWB.before + 100

RECURSIVE SumSizes(_)
SumSizes(ws) == IF ws = <<>> THEN 0 ELSE ws[1].size + SumSizes(Tail(ws))

(* C20: between calls, the blocks appended so far are those in the buffer  *)
(* plus those of the bundles of the store writes made, each counted once;  *)
(* during a flush the buffer is the bundle being written.  The buffer      *)
(* changes only by the append of the incoming block and by being emptied   *)
(* when a flush returns, and each store write is handed the whole buffer.  *)
C20_AppendedBlocksWrittenOnce ==
    /\ [](pc = "idle" => (fed.kept = Len(blocks) + SumSizes(writes)))
    /\ [](InFlush => (fed.kept = SumSizes(writes) /\ blocks = bundle))
    /\ [][(blocks' # blocks =>
              \/ ~InFlush /\ blocks' = Append(blocks, blk')
              \/ InFlush /\ blocks = bundle /\ blocks' \in {<<>>, <<blk>>})
           /\
           (writes' # writes =>
              /\ Len(writes') = Len(writes) + 1
              /\ SubSeq(writes', 1, Len(writes)) = writes
              /\ writes'[Len(writes')].size = Len(blocks')
              /\ bundle' = blocks'
              /\ blocks' # <<>>
              /\ pc' \in {"overflow", "completion"})]_vars

(* Two store writes made, the second of a short bundle flushed by a block  *)
(* of a later bundle, which is now alone in the buffer.                    *)
C20_Witness ==
    /\ pc = "idle"
    /\ Len(writes) = 2
    /\ writes[2].size < 100
    /\ Len(blocks) = 1
    /\ blocks[1] = blk
    /\ fed.kept = writes[1].size + writes[2].size + 1

====
